---- MODULE Spec2Model ----
(***************************************************************************)
(* A model of src/trie.py: class Trie, a prefix tree kept as nested Python *)
(* dicts.  A dict is modelled as the sequence of its items in insertion    *)
(* order (the order Python's dict iterates in); an item's value is either  *)
(* a nested dict (a child node) or the Python value True, which the code   *)
(* stores under the key '_end' to mark the end of a word.                  *)
(***************************************************************************)
EXTENDS Naturals, Sequences, FiniteSets

VARIABLES root, inserted, ncalls, exc, op, ret, gen

vars == <<root, inserted, ncalls, exc, op, ret, gen>>

\* ------------------------------------------------------------------ bounds

\* Longest word passed to insert, and number of insert calls, in a run of
\* Spec and SpecSym.
MaxLen == 2
MaxCalls == 3
\* The same in a run of SpecQ, which interleaves the queries with insert.
MaxQLen == 1
MaxQCalls == 2

\* ------------------------------------------------------------- Python values

\* The key insert stores the end-of-word marker under.
END == "_end"

\* The Python value True.
TrueVal == [isdict |-> FALSE, items |-> <<>>]

\* A Python dict with the given items, in insertion order.
DictVal(items) == [isdict |-> TRUE, items |-> items]

\* The literal {}.
EmptyDict == DictVal(<<>>)

\* key in d
HasKey(d, key) == \E i \in 1..Len(d.items) : d.items[i].k = key

\* d[key], for a key that is in d
GetItem(d, key) ==
    LET i == CHOOSE j \in 1..Len(d.items) : d.items[j].k = key
    IN d.items[i].v

\* Mutant: a node that keeps its items in a list and appends without looking.
SetItem_append(d, key, val) == DictVal(Append(d.items, [k |-> key, v |-> val]))

\* d[key] = val: a key already in d keeps its position, a new key goes last.
SetItem(d, key, val) ==
    IF HasKey(d, key)
    THEN DictVal([i \in 1..Len(d.items) |->
                    IF d.items[i].k = key THEN [k |-> key, v |-> val] ELSE d.items[i]])
    ELSE DictVal(Append(d.items, [k |-> key, v |-> val]))

\* ------------------------------------------------------------------ words

\* The characters of the str words of Spec and SpecQ.
Alphabet == {"a", "b"}

\* The symbols of the words of SpecSym: sequences of strings, one of them '_end'.
Symbols == {"a", END}

SeqsUpTo(S, n) == UNION {[1..m -> S] : m \in 0..n}

\* The str words passed to insert, and the (one longer) arguments of queries.
Words == SeqsUpTo(Alphabet, MaxLen)

Args == SeqsUpTo(Alphabet, MaxLen + 1)

\* The same for the symbol sequences of SpecSym.
SymWords == SeqsUpTo(Symbols, MaxLen)

\* The same for SpecQ.
QWords == SeqsUpTo(Alphabet, MaxQLen)

QArgs == SeqsUpTo(Alphabet, MaxQLen + 1)

\* ----------------------------------------------------------------- insert

\* Trie.insert from current_node on.  A dict the loop descends into is the
\* object stored in its parent, so the parent sees what is done below it.
\* On True (reached only through a symbol equal to '_end') `char not in
\* current_node` and `current_node['_end'] = True` raise TypeError.
RECURSIVE insert_from(_, _)
\* Mutant: `current_node[char] = {}` without the test `char not in current_node`.
insert_from_clobber(current_node, word) ==
    IF ~current_node.isdict
    THEN [raised |-> TRUE, node |-> current_node]
    ELSE IF word = <<>>
    THEN [raised |-> FALSE, node |-> SetItem(current_node, END, TrueVal)]
    ELSE LET char == Head(word)
             created == SetItem(current_node, char, EmptyDict)
             below == insert_from(GetItem(created, char), Tail(word))
         IN [raised |-> below.raised, node |-> SetItem(created, char, below.node)]

insert_from(current_node, word) ==
    IF ~current_node.isdict
    THEN [raised |-> TRUE, node |-> current_node]
    ELSE IF word = <<>>
    THEN [raised |-> FALSE, node |-> SetItem(current_node, END, TrueVal)]
    ELSE LET char == Head(word)
             created == IF ~HasKey(current_node, char)
                        THEN SetItem(current_node, char, EmptyDict)
                        ELSE current_node
             below == insert_from(GetItem(created, char), Tail(word))
         IN [raised |-> below.raised, node |-> SetItem(created, char, below.node)]

\* self.root after insert(word)
insert(node, word) == insert_from(node, word).node

\* whether insert(word) raises
insert_raises(node, word) == insert_from(node, word).raised

\* ----------------------------------------------------------------- queries

\* Trie.search
RECURSIVE search(_, _)
\* Mutant: `return True` after the loop, as starts_with does.
search_anynode(current_node, word) ==
    IF ~current_node.isdict THEN FALSE
    ELSE IF word = <<>> THEN TRUE
    ELSE IF ~HasKey(current_node, Head(word)) THEN FALSE
    ELSE search(GetItem(current_node, Head(word)), Tail(word))

search(current_node, word) ==
    IF ~current_node.isdict THEN FALSE
    ELSE IF word = <<>> THEN HasKey(current_node, END)
    ELSE IF ~HasKey(current_node, Head(word)) THEN FALSE
    ELSE search(GetItem(current_node, Head(word)), Tail(word))

\* Trie.__contains__
contains(node, word) == search(node, word)

\* Trie.starts_with
RECURSIVE starts_with(_, _)
\* Mutant: `return '_end' in current_node` after the loop, as search does.
starts_with_word(current_node, prefix) ==
    IF ~current_node.isdict THEN FALSE
    ELSE IF prefix = <<>> THEN HasKey(current_node, END)
    ELSE IF ~HasKey(current_node, Head(prefix)) THEN FALSE
    ELSE starts_with(GetItem(current_node, Head(prefix)), Tail(prefix))

starts_with(current_node, prefix) ==
    IF prefix = <<>> THEN TRUE
    ELSE IF ~current_node.isdict THEN FALSE
    ELSE IF ~HasKey(current_node, Head(prefix)) THEN FALSE
    ELSE starts_with(GetItem(current_node, Head(prefix)), Tail(prefix))

\* Trie.contains_prefix
contains_prefix(node, prefix) == starts_with(node, prefix)

\* Trie._count_words: the sum over node.items() from item i on is count_from.
RECURSIVE _count_words(_), count_from(_, _)
\* Mutant: `count += 1` for every node, without the test `'_end' in node`.
_count_words_nodes(node) == 1 + count_from(node, 1)

_count_words(node) ==
    (IF HasKey(node, END) THEN 1 ELSE 0) + count_from(node, 1)

count_from(node, i) ==
    IF i > Len(node.items) THEN 0
    ELSE (IF node.items[i].k # END THEN _count_words(node.items[i].v) ELSE 0)
         + count_from(node, i + 1)

\* Trie.__len__
__len__(node) == _count_words(node)

\* Trie._iterate_words run to exhaustion: the list of the words it yields.
RECURSIVE _iterate_words(_, _), iterate_from(_, _, _)
\* Mutant: a node that ends a word is not descended into.
_iterate_words_stop(node, current_word) ==
    IF HasKey(node, END) THEN <<current_word>> ELSE iterate_from(node, current_word, 1)

_iterate_words(node, current_word) ==
    (IF HasKey(node, END) THEN <<current_word>> ELSE <<>>)
    \o iterate_from(node, current_word, 1)

iterate_from(node, current_word, i) ==
    IF i > Len(node.items) THEN <<>>
    ELSE (IF node.items[i].k # END
          THEN _iterate_words(node.items[i].v, Append(current_word, node.items[i].k))
          ELSE <<>>)
         \o iterate_from(node, current_word, i + 1)

\* list(Trie.__iter__())
__iter__(node) == _iterate_words(node, <<>>)

\* list(Trie.prefix_iter(prefix)): `rest` is the part of prefix the loop has
\* still to consume.
RECURSIVE prefix_walk(_, _, _)
\* Mutant: `self._iterate_words(current_node, "")`, the prefix not seeded.
prefix_walk_unseeded(current_node, prefix, rest) ==
    IF rest = <<>> THEN _iterate_words(current_node, <<>>)
    ELSE IF ~HasKey(current_node, Head(rest)) THEN <<>>
    ELSE prefix_walk(GetItem(current_node, Head(rest)), prefix, Tail(rest))

prefix_walk(current_node, prefix, rest) ==
    IF rest = <<>> THEN _iterate_words(current_node, prefix)
    ELSE IF ~HasKey(current_node, Head(rest)) THEN <<>>
    ELSE prefix_walk(GetItem(current_node, Head(rest)), prefix, Tail(rest))

prefix_iter(node, prefix) == prefix_walk(node, prefix, prefix)

\* -------------------------------------------------------------- generators

\* __iter__ and prefix_iter return generators: the code runs only as next()
\* is called on them.  A suspended generator is the stack of its frames of
\* _iterate_words, outermost first.  A frame refers to its dict by the path
\* current_word (insert never replaces a dict of a str trie by another) and
\* is at line 110 ("start"), suspended at the yield of line 111 ("yield"), or
\* in the loop of lines 112-114 ("loop") with the position of its items()
\* iterator and the size the dict had when that iterator was made.
Frame(current_word, at, pos, used) ==
    [current_word |-> current_word, at |-> at, pos |-> pos, used |-> used]

NoGen == [state |-> "none", kind |-> "none", prefix |-> <<>>, stack |-> <<>>]

ClosedGen == [state |-> "closed", kind |-> "none", prefix |-> <<>>, stack |-> <<>>]

NewGen(kind, prefix) ==
    [state |-> "created", kind |-> kind, prefix |-> prefix, stack |-> <<>>]

\* The dict the path leads to.
RECURSIVE NodeAt(_, _)
NodeAt(node, path) ==
    IF path = <<>> THEN node ELSE NodeAt(GetItem(node, Head(path)), Tail(path))

\* Trie._iterate_words resumed until its next yield: the stack then, the
\* word yielded (none: the outermost frame returned), and whether a dict
\* iterator raised RuntimeError because its dict had changed size.
RECURSIVE advance(_, _)
advance(tree, stack) ==
    IF stack = <<>>
    THEN [stack |-> <<>>, yielded |-> <<>>, raised |-> FALSE]
    ELSE LET top == stack[Len(stack)]
             outer == SubSeq(stack, 1, Len(stack) - 1)
             node == NodeAt(tree, top.current_word)
         IN IF top.at = "start"
            THEN IF HasKey(node, END)
                 THEN [stack |-> Append(outer, Frame(top.current_word, "yield", 0, 0)),
                       yielded |-> <<top.current_word>>, raised |-> FALSE]
                 ELSE advance(tree, Append(outer,
                          Frame(top.current_word, "loop", 1, Len(node.items))))
            ELSE IF top.at = "yield"
            THEN advance(tree, Append(outer,
                     Frame(top.current_word, "loop", 1, Len(node.items))))
            ELSE IF Len(node.items) # top.used
            THEN [stack |-> <<>>, yielded |-> <<>>, raised |-> TRUE]
            ELSE IF top.pos > Len(node.items)
            THEN advance(tree, outer)
            ELSE LET item == node.items[top.pos]
                     moved == Append(outer,
                                  Frame(top.current_word, "loop", top.pos + 1, top.used))
                 IN IF item.k # END
                    THEN advance(tree, Append(moved,
                             Frame(Append(top.current_word, item.k), "start", 0, 0)))
                    ELSE advance(tree, moved)

\* The loop of Trie.prefix_iter: whether it reaches the yield from.
RECURSIVE prefix_reaches(_, _)
prefix_reaches(current_node, rest) ==
    IF rest = <<>> THEN TRUE
    ELSE IF ~HasKey(current_node, Head(rest)) THEN FALSE
    ELSE prefix_reaches(GetItem(current_node, Head(rest)), Tail(rest))

\* next(g): the generator then, the word yielded, and the exception raised.
gen_next(tree, g) ==
    LET stack == IF g.state = "suspended" THEN g.stack
                 ELSE IF g.state = "closed" THEN <<>>
                 ELSE IF g.kind = "prefix_iter" /\ ~prefix_reaches(tree, g.prefix) THEN <<>>
                 ELSE <<Frame(g.prefix, "start", 0, 0)>>
        r == advance(tree, stack)
    IN IF r.raised THEN [gen |-> ClosedGen, yielded |-> <<>>, exc |-> "RuntimeError"]
       ELSE IF r.stack = <<>> THEN [gen |-> ClosedGen, yielded |-> <<>>, exc |-> "StopIteration"]
       ELSE [gen |-> [state |-> "suspended", kind |-> g.kind, prefix |-> g.prefix,
                      stack |-> r.stack],
             yielded |-> r.yielded, exc |-> "none"]

\* list(g)
RECURSIVE drain(_, _)
drain(tree, g) ==
    LET r == gen_next(tree, g)
    IN IF r.exc # "none" THEN <<>> ELSE r.yielded \o drain(tree, r.gen)

\* ---------------------------------------------------------- state machine

\* Trie.__init__, before any call.  `inserted` and `ncalls` are the history
\* of insert: the words passed to it and the number of calls; op, ret and
\* exc are the last call, what it returned (<<>> for None) and the exception
\* it raised; gen is the generator the caller holds.
Init ==
    /\ root = EmptyDict
    /\ inserted = {}
    /\ ncalls = 0
    /\ exc = "none"
    /\ op = "init"
    /\ ret = <<>>
    /\ gen = NoGen

\* trie.insert(word)
InsertCall(word) ==
    /\ root' = insert(root, word)
    /\ exc' = IF insert_raises(root, word) THEN "TypeError" ELSE "none"
    /\ inserted' = inserted \cup {word}
    /\ ncalls' = ncalls + 1
    /\ op' = "insert"
    /\ ret' = <<>>
    /\ UNCHANGED gen

Insert(word) ==
    /\ ncalls < MaxCalls
    /\ InsertCall(word)

Next == \E word \in Words : Insert(word)

Spec == Init /\ [][Next]_vars

\* trie.insert(word) for a word that is a sequence of symbols, not a str
InsertSym(word) ==
    /\ ncalls < MaxCalls
    /\ InsertCall(word)

NextSym == \E word \in SymWords : InsertSym(word)

SpecSym == Init /\ [][NextSym]_vars

\* A call that only returns a value.
Returns(name, value) ==
    /\ op' = name
    /\ ret' = <<value>>
    /\ exc' = "none"

InsertQ(word) ==
    /\ ncalls < MaxQCalls
    /\ InsertCall(word)

\* The tree after a walk that creates the nodes it does not find (used by
\* the mutant of Search below).
RECURSIVE setdefault_walk(_, _)
setdefault_walk(current_node, word) ==
    IF word = <<>> THEN current_node
    ELSE LET created == IF ~HasKey(current_node, Head(word))
                        THEN SetItem(current_node, Head(word), EmptyDict)
                        ELSE current_node
         IN SetItem(created, Head(word),
                    setdefault_walk(GetItem(created, Head(word)), Tail(word)))

\* Mutant: `current_node = current_node.setdefault(char, {})` in the loop.
Search_setdefault(word) ==
    /\ Returns("search", search(root, word))
    /\ root' = setdefault_walk(root, word)
    /\ UNCHANGED <<inserted, ncalls, gen>>

\* trie.search(word)
Search(word) ==
    /\ Returns("search", search(root, word))
    /\ UNCHANGED <<root, inserted, ncalls, gen>>

\* word in trie
Contains(word) ==
    /\ Returns("contains", contains(root, word))
    /\ UNCHANGED <<root, inserted, ncalls, gen>>

\* trie.starts_with(prefix)
StartsWith(prefix) ==
    /\ Returns("starts_with", starts_with(root, prefix))
    /\ UNCHANGED <<root, inserted, ncalls, gen>>

\* trie.contains_prefix(prefix)
ContainsPrefix(prefix) ==
    /\ Returns("contains_prefix", contains_prefix(root, prefix))
    /\ UNCHANGED <<root, inserted, ncalls, gen>>

\* len(trie)
Length ==
    /\ Returns("len", __len__(root))
    /\ UNCHANGED <<root, inserted, ncalls, gen>>

\* g = iter(trie): no line of _iterate_words has run yet.
Iter ==
    /\ gen' = NewGen("iter", <<>>)
    /\ op' = "iter"
    /\ ret' = <<>>
    /\ exc' = "none"
    /\ UNCHANGED <<root, inserted, ncalls>>

\* g = trie.prefix_iter(prefix): no line of prefix_iter has run yet.
PrefixIter(prefix) ==
    /\ gen' = NewGen("prefix_iter", prefix)
    /\ op' = "prefix_iter"
    /\ ret' = <<>>
    /\ exc' = "none"
    /\ UNCHANGED <<root, inserted, ncalls>>

\* next(g)
NextWord ==
    /\ gen.state # "none"
    /\ LET r == gen_next(root, gen)
       IN /\ gen' = r.gen
          /\ ret' = r.yielded
          /\ exc' = r.exc
    /\ op' = "next"
    /\ UNCHANGED <<root, inserted, ncalls>>

\* del g: the caller stops consuming and drops the generator.
Discard ==
    /\ gen.state # "none"
    /\ gen' = NoGen
    /\ op' = "del"
    /\ ret' = <<>>
    /\ exc' = "none"
    /\ UNCHANGED <<root, inserted, ncalls>>

NextQ ==
    \/ \E word \in QWords : InsertQ(word)
    \/ \E word \in QArgs : Search(word)
    \/ \E word \in QArgs : Contains(word)
    \/ \E prefix \in QArgs : StartsWith(prefix)
    \/ \E prefix \in QArgs : ContainsPrefix(prefix)
    \/ Length
    \/ Iter
    \/ \E prefix \in QArgs : PrefixIter(prefix)
    \/ NextWord
    \/ Discard

SpecQ == Init /\ [][NextQ]_vars

\* ------------------------------------------------- vocabulary of the claims

IsPrefix(p, w) == Len(p) <= Len(w) /\ SubSeq(w, 1, Len(p)) = p

IsProperPrefix(p, w) == IsPrefix(p, w) /\ p # w

Prefixes(w) == {SubSeq(w, 1, n) : n \in 0..Len(w)}

\* Python's order on characters: by code point.
ord(c) == IF c = "a" THEN 97 ELSE 98

\* Python's order on str: the first differing character decides, a proper
\* prefix comes first.
RECURSIVE LexLess(_, _)
LexLess(u, v) ==
    IF u = <<>> THEN v # <<>>
    ELSE IF v = <<>> THEN FALSE
    ELSE IF Head(u) = Head(v) THEN LexLess(Tail(u), Tail(v))
    ELSE ord(Head(u)) < ord(Head(v))

\* The nodes of the tree below and including `node`, each named by the
\* symbols on the path from the root to it; `at` is the path to `node`.
RECURSIVE Nodes(_, _)
Nodes(node, at) ==
    {at} \cup UNION {Nodes(node.items[i].v, Append(at, node.items[i].k)) :
                        i \in {j \in 1..Len(node.items) : node.items[j].v.isdict}}

\* The nodes that carry the end-of-word marker.
Terminals(tree) == {p \in Nodes(tree, <<>>) : HasKey(NodeAt(tree, p), END)}

\* The keys of a node, in the order the dict holds them.
Keys(node) == [i \in 1..Len(node.items) |-> node.items[i].k]

NoDuplicates(s) == \A i, j \in 1..Len(s) : i # j => s[i] # s[j]

Range(s) == {s[i] : i \in 1..Len(s)}

\* The generator model and the list model of the iterations agree: consuming
\* a fresh generator to its end gives the list.
GenAgreesWithList ==
    /\ drain(root, NewGen("iter", <<>>)) = __iter__(root)
    /\ \A p \in Args : drain(root, NewGen("prefix_iter", p)) = prefix_iter(root, p)

\* ------------------------------------------------------------------ claims

\* C1: after any sequence of insert calls, search(w) and `w in trie` are true
\* exactly for the words w that were inserted; a proper prefix of inserted
\* words that was not itself inserted is not found.
C1_SearchIffInserted ==
    \A w \in Args :
        /\ search(root, w) <=> w \in inserted
        /\ contains(root, w) <=> w \in inserted

C1_Witness ==
    \E w \in inserted : \E p \in Args :
        /\ IsProperPrefix(p, w)
        /\ p \notin inserted
        /\ search(root, w)
        /\ ~search(root, p)

\* C2: iterating the trie yields the stored words in strict ascending
\* lexicographic order, whatever the order of the insertions.
C2_IterAscending ==
    LET out == __iter__(root)
    IN \A i, j \in 1..Len(out) : i < j => LexLess(out[i], out[j])

\* C3: a full iteration yields every distinct inserted word exactly once and
\* nothing else.
C3_IterExactlyInserted ==
    LET out == __iter__(root)
    IN /\ NoDuplicates(out)
       /\ Range(out) = inserted

C3_Witness ==
    /\ ncalls = MaxCalls
    /\ Cardinality(inserted) = 2
    /\ Len(__iter__(root)) = 2
    /\ \E w \in inserted : \E p \in inserted : IsProperPrefix(p, w)

\* C4: len(trie) is the number of distinct words inserted, repeated
\* insertions counted once, and 0 for a fresh trie.
C4_LenCountsDistinct ==
    /\ __len__(root) = Cardinality(inserted)
    /\ ncalls = 0 => __len__(root) = 0

C4_Witness ==
    /\ ncalls = MaxCalls
    /\ Cardinality(inserted) = 2
    /\ __len__(root) = 2
    /\ Cardinality(Nodes(root, <<>>)) > 3

C6_PrefixIterIsFilteredIter ==
    LET all == __iter__(root)
    IN \A p \in Args :
          LET StartsWithP(w) == IsPrefix(p, w)
          IN prefix_iter(root, p) = SelectSeq(all, StartsWithP)

C6_Witness ==
    /\ \E p \in inserted :
          /\ p # <<>>
          /\ Len(prefix_iter(root, p)) = 2
          /\ Len(__iter__(root)) = 3
    /\ \E p \in Words : prefix_iter(root, p) = <<>>

\* C7: in any reachable state and for every word w, inserting w a second
\* time leaves the tree and the word count as they are after the first
\* insertion, and search(w) is true after the first and after the second.
C7_InsertIdempotent ==
    \A w \in Words :
        LET once == insert(root, w)
            twice == insert(once, w)
        IN /\ twice = once
           /\ __len__(twice) = __len__(once)
           /\ search(once, w)
           /\ search(twice, w)

C7_Witness ==
    /\ ncalls > Cardinality(inserted)
    /\ \E w \in inserted :
          /\ Len(NodeAt(root, w).items) > 1
          /\ insert(root, w) = root

\* C8: in any reachable state insert(w) only grows the tree: the nodes after
\* it are the nodes before it and the nodes on w's path, the terminal nodes
\* after it are the terminal nodes before it and the node w leads to, and a
\* node that was there keeps its edges, in their order, ahead of a new one.
C8_InsertOnlyGrows ==
    LET nodes == Nodes(root, <<>>)
        terminals == Terminals(root)
    IN \A w \in Words :
          LET after == insert(root, w)
          IN /\ Nodes(after, <<>>) = nodes \cup Prefixes(w)
             /\ Terminals(after) = terminals \cup {w}
             /\ \A p \in nodes :
                   LET old == Keys(NodeAt(root, p))
                       new == Keys(NodeAt(after, p))
                   IN /\ Len(old) <= Len(new)
                      /\ SubSeq(new, 1, Len(old)) = old
                      /\ Len(new) <= Len(old) + 1

C8_Witness ==
    /\ ncalls = MaxCalls
    /\ Cardinality(Nodes(root, <<>>)) > 3
    /\ \E w \in Words :
          /\ Len(w) = MaxLen
          /\ SubSeq(w, 1, 1) \in Nodes(root, <<>>)
          /\ w \notin Nodes(root, <<>>)

\* C9: a node carries the terminal marker exactly when the path to it was
\* passed to insert, also for words over symbols one of which is '_end'.
C9_MarkerIffInserted ==
    Terminals(root) = inserted

\* C10: search, contains, starts_with, contains_prefix, len and a partial or
\* complete consumption of iter(trie) and prefix_iter(p) leave the tree as
\* it is, so that a later query is answered from the same tree: a step of
\* any call but insert changes no node, edge or terminal flag, and a call
\* that only returns a value leaves a generator where it was suspended.
C10_QueriesLeaveTree ==
    [][/\ op' # "insert" => root' = root
       /\ op' \in {"search", "contains", "starts_with", "contains_prefix", "len"}
             => gen' = gen]_vars

C10_Witness ==
    /\ op = "search"
    /\ ret = <<FALSE>>
    /\ gen.state = "suspended"
    /\ ncalls = MaxQCalls
    /\ Cardinality(Nodes(root, <<>>)) = 3

====
